---- MODULE Spec2Model ----
(***************************************************************************)
(* A model of obs_recording_notification.py: the OBS frontend event        *)
(* handler running on the host thread, the Tk thread `thd` running runtk,  *)
(* and the Application popup with its fade-in / hold / fade-out callbacks  *)
(* on the Tk event loop.                                                   *)
(*                                                                         *)
(* Opacity (-alpha) is kept in tenths, with exact decimal arithmetic: 0    *)
(* is 0.0, 9 is 0.9, a step is 0.1.  The rounding of binary floating       *)
(* point is outside this model.                                            *)
(*                                                                         *)
(* Tk `after` callbacks are kept as a set of pending timers with their     *)
(* identifiers; any pending callback may be the next one the loop runs,    *)
(* and each callback runs to completion before the next one starts.  A     *)
(* call of frontend_event_handler or script_update on the host thread is   *)
(* one step.                                                               *)
(***************************************************************************)
EXTENDS Integers, Sequences, FiniteSets, TLC

\* ------------------------------------------------------------------ bounds
\* Cap on the number of check_loop_status callbacks pending on the Tk loop.
\* Every processed request adds one, so this also bounds a burst of requests.
MaxPolls == 3
\* Cap on the number of update_position callbacks posted and not yet run.
MaxPosted == 1

\* ------------------------------------------------------- program constants
FADE_MS == 30
HOLD_MS == 3000
ALPHA_STEP == 1
ALPHA_FULL == 9
ALPHA_LOW == 1

None == "None"
Absent == "absent"
\* The value of _fade_timer / _fadeout_timer when they hold None.
NoTimer == 0

TimerIds == 1 .. (MaxPolls + 2)

Events ==
    { "FINISHED_LOADING", "RECORDING_STARTING", "RECORDING_STOPPED",
      "RECORDING_PAUSED", "RECORDING_UNPAUSED", "REPLAY_BUFFER_SAVED",
      "OTHER" }

\* The events that have a branch of their own after the popup check.
Recognized ==
    { "RECORDING_STARTING", "RECORDING_STOPPED", "RECORDING_PAUSED",
      "RECORDING_UNPAUSED", "REPLAY_BUFFER_SAVED" }

\* The play_sound calls with the beep count of the paused branch left at its
\* default of 1.
SoundOf_default_count(data) ==
    CASE data = "RECORDING_STARTING" ->
           [alias |-> "DeviceConnect", freq |-> 800, ms |-> 200, count |-> 1]
      [] data = "RECORDING_STOPPED" ->
           [alias |-> "DeviceDisconnect", freq |-> 400, ms |-> 300, count |-> 1]
      [] data = "RECORDING_PAUSED" ->
           [alias |-> "SystemHand", freq |-> 600, ms |-> 150, count |-> 1]
      [] data = "RECORDING_UNPAUSED" ->
           [alias |-> "SystemAsterisk", freq |-> 600, ms |-> 100, count |-> 2]
      [] data = "REPLAY_BUFFER_SAVED" ->
           [alias |-> "SystemNotification", freq |-> 1000, ms |-> 100, count |-> 3]

\* The play_sound call of each branch: alias, fallback Hz, ms, beep count.
SoundOf(data) ==
    CASE data = "RECORDING_STARTING" ->
           [alias |-> "DeviceConnect", freq |-> 800, ms |-> 200, count |-> 1]
      [] data = "RECORDING_STOPPED" ->
           [alias |-> "DeviceDisconnect", freq |-> 400, ms |-> 300, count |-> 1]
      [] data = "RECORDING_PAUSED" ->
           [alias |-> "SystemHand", freq |-> 600, ms |-> 150, count |-> 2]
      [] data = "RECORDING_UNPAUSED" ->
           [alias |-> "SystemAsterisk", freq |-> 600, ms |-> 100, count |-> 2]
      [] data = "REPLAY_BUFFER_SAVED" ->
           [alias |-> "SystemNotification", freq |-> 1000, ms |-> 100, count |-> 3]

\* The (notification_type, notification_state) the posted lambda of each
\* branch stores.
RequestOf(data) ==
    CASE data = "RECORDING_STARTING"  -> <<"recording", "started">>
      [] data = "RECORDING_STOPPED"   -> <<"recording", "saved">>
      [] data = "RECORDING_PAUSED"    -> <<"recording", "paused">>
      [] data = "RECORDING_UNPAUSED"  -> <<"recording", "unpaused">>
      [] data = "REPLAY_BUFFER_SAVED" -> <<"replay", "saved">>

\* The label table with the text __init__ draws as its default.
Labels_default_started(ntype, state) ==
    CASE <<ntype, state>> = <<"recording", "started">>  -> "Recording Started"
      [] <<ntype, state>> = <<"recording", "paused">>   -> "Recording Paused"
      [] <<ntype, state>> = <<"recording", "unpaused">> -> "Recording Resumed"
      [] <<ntype, state>> = <<"recording", "saved">>    -> "Recording Saved"
      [] <<ntype, state>> = <<"replay", "saved">>       -> "Replay Saved"
      [] OTHER -> "Recording Started"

\* The labels dictionary of check_loop_status with its .get default.
Labels(ntype, state) ==
    CASE <<ntype, state>> = <<"recording", "started">>  -> "Recording Started"
      [] <<ntype, state>> = <<"recording", "paused">>   -> "Recording Paused"
      [] <<ntype, state>> = <<"recording", "unpaused">> -> "Recording Resumed"
      [] <<ntype, state>> = <<"recording", "saved">>    -> "Recording Saved"
      [] <<ntype, state>> = <<"replay", "saved">>       -> "Replay Saved"
      [] OTHER -> "Notification"

\* The glyph _draw_indicator leaves on the canvas above the shadow and border.
DrawIndicator(ntype, state) ==
    IF ntype = "recording"
    THEN IF state = "started" THEN "red_circle"
         ELSE IF state = "paused" THEN "pause_bars"
         ELSE IF state = "unpaused" THEN "play_triangle"
         ELSE "checkmark"
    ELSE IF ntype = "replay" THEN "blue_circle"
    ELSE "blank"

VARIABLES
    SOUNDS_AVAILABLE,  \* whether `import winsound` succeeded
    Config,            \* [sounds_enabled, position_center]
    thd,               \* where the Tk thread is in runtk
    app_instance,      \* None, or "app" once runtk has assigned it
    app,               \* the Application object and its Tk after-queue
    queue,             \* the after(0, lambda) requests not yet run, in order
    warmed,            \* whether _warmup_sound has made its Beep(37, 1) yet
    last               \* what the latest frontend_event_handler call did

vars == <<SOUNDS_AVAILABLE, Config, thd, app_instance, app, queue, warmed, last>>


\* ------------------------------------------------------------ Application
\* The Application object before runtk has constructed it.
NoApp ==
    [alpha |-> 0, is_animating |-> FALSE, pending_notification |-> FALSE,
     fade_timer |-> NoTimer, fadeout_timer |-> NoTimer,
     notification_type |-> Absent, notification_state |-> Absent,
     label |-> None, indicator |-> None, centered |-> None,
     timers |-> {}, polls |-> 0, positions |-> 0]

\* update_position that also hides the window again, as __init__ does after
\* its own call of update_position.
update_position_hides(s, cfg) ==
    [s EXCEPT !.centered = IF cfg.position_center THEN "center"
                           ELSE "top_right",
              !.alpha = 0]

\* Application.update_position: the geometry follows Config.position_center.
update_position(s, cfg) ==
    [s EXCEPT !.centered = IF cfg.position_center THEN "center"
                           ELSE "top_right"]

\* Application.__init__: geometry from the config, hidden window, no
\* animation, no timers, the red circle and "Recording Started" drawn.
AppInit(cfg) ==
    [update_position(NoApp, cfg) EXCEPT
        !.alpha = 0,
        !.is_animating = FALSE,
        !.pending_notification = FALSE,
        !.fade_timer = NoTimer,
        !.fadeout_timer = NoTimer,
        !.indicator = DrawIndicator("recording", "started"),
        !.label = "Recording Started"]

\* The identifier Tk gives the next `after` callback: one that names no
\* pending callback and that no attribute of the Application still holds
\* (Tk never reuses an identifier).
NewTimerId(s) ==
    LET used == {t.id : t \in s.timers} \cup {s.fade_timer, s.fadeout_timer}
        free == TimerIds \ used
    IN  CHOOSE i \in free : \A j \in free : i <= j

\* self.after(ms, cb) for the fade callbacks: the timer joins the loop.
after(s, id, ms, cb) ==
    [s EXCEPT !.timers = @ \cup {[id |-> id, ms |-> ms, cb |-> cb]}]

\* self.after_cancel(id): a pending callback with that identifier is dropped;
\* an identifier that already fired cancels nothing.
after_cancel(s, id) ==
    [s EXCEPT !.timers = {t \in @ : t.id # id}]

\* fade_in with the bound tested as <= : one step too many.
fade_in_overshoot(s) ==
    LET id == NewTimerId(s) IN
    IF s.alpha <= ALPHA_FULL
    THEN after([s EXCEPT !.alpha = @ + ALPHA_STEP, !.fade_timer = id],
               id, FADE_MS, "fade_in")
    ELSE after([s EXCEPT !.fadeout_timer = id], id, HOLD_MS, "fade_out")

\* fade_in that steps the opacity down when it schedules the hold.
fade_in_dips(s) ==
    LET id == NewTimerId(s) IN
    IF s.alpha < ALPHA_FULL
    THEN after([s EXCEPT !.alpha = @ + ALPHA_STEP, !.fade_timer = id],
               id, FADE_MS, "fade_in")
    ELSE after([s EXCEPT !.alpha = @ - ALPHA_STEP, !.fadeout_timer = id],
               id, HOLD_MS, "fade_out")

\* Application.fade_in.
fade_in(s) ==
    LET id == NewTimerId(s) IN
    IF s.alpha < ALPHA_FULL
    THEN after([s EXCEPT !.alpha = @ + ALPHA_STEP, !.fade_timer = id],
               id, FADE_MS, "fade_in")
    ELSE after([s EXCEPT !.fadeout_timer = id], id, HOLD_MS, "fade_out")

\* fade_out that forgets to clear is_animating and the request at the end.
fade_out_never_idle(s) ==
    LET id == NewTimerId(s) IN
    IF s.alpha > ALPHA_LOW
    THEN after([s EXCEPT !.alpha = @ - ALPHA_STEP, !.fade_timer = id],
               id, FADE_MS, "fade_out")
    ELSE s

\* Application.fade_out.
fade_out(s) ==
    LET id == NewTimerId(s) IN
    IF s.alpha > ALPHA_LOW
    THEN after([s EXCEPT !.alpha = @ - ALPHA_STEP, !.fade_timer = id],
               id, FADE_MS, "fade_out")
    ELSE IF s.notification_type # Absent
         THEN [s EXCEPT !.is_animating = FALSE,
                        !.notification_type = Absent,
                        !.notification_state = Absent]
         ELSE [s EXCEPT !.is_animating = FALSE]

\* self.after(100, self.check_loop_status).
after_poll(s) ==
    [s EXCEPT !.polls = @ + 1]

\* The interrupt branch without the after_cancel of _fade_timer.
interrupt_keeps_fade(s) ==
    LET c2 == IF s.fadeout_timer # NoTimer
              THEN after_cancel(s, s.fadeout_timer) ELSE s
    IN  [c2 EXCEPT !.alpha = 0, !.pending_notification = FALSE]

\* The interrupt branch that cancels _fade_timer only and leaves the hold
\* timer of the interrupted animation pending.
interrupt_keeps_hold(s) ==
    LET c1 == IF s.fade_timer # NoTimer THEN after_cancel(s, s.fade_timer) ELSE s
    IN  [c1 EXCEPT !.alpha = 0, !.pending_notification = FALSE]

\* The interrupt branch without the snap of the opacity to 0.
interrupt_no_snap(s) ==
    LET c1 == IF s.fade_timer # NoTimer THEN after_cancel(s, s.fade_timer) ELSE s
        c2 == IF c1.fadeout_timer # NoTimer
              THEN after_cancel(c1, c1.fadeout_timer) ELSE c1
    IN  [c2 EXCEPT !.pending_notification = FALSE]

\* The interrupt branch of check_loop_status: cancel both timers, snap the
\* opacity to 0, clear the flag.
interrupt(s) ==
    LET c1 == IF s.fade_timer # NoTimer THEN after_cancel(s, s.fade_timer) ELSE s
        c2 == IF c1.fadeout_timer # NoTimer
              THEN after_cancel(c1, c1.fadeout_timer) ELSE c1
    IN  [c2 EXCEPT !.alpha = 0, !.pending_notification = FALSE]

\* check_loop_status without the label and indicator update.
show_stale(s) == s

\* The label and indicator update of check_loop_status.
show(s) ==
    [s EXCEPT !.label = Labels(s.notification_type, s.notification_state),
              !.indicator = DrawIndicator(s.notification_type,
                                          s.notification_state)]

\* Application.check_loop_status.
check_loop_status(s) ==
    IF s.notification_type = Absent
    THEN after_poll(s)
    ELSE IF s.is_animating /\ ~s.pending_notification
    THEN after_poll(s)
    ELSE LET s1 == IF s.pending_notification THEN interrupt(s) ELSE s
             s2 == [s1 EXCEPT !.is_animating = TRUE]
         IN  after_poll(fade_in(show(s2)))

\* The lambda without its call of check_loop_status: the request waits for
\* the next poll tick.
submit_deferred(s, req) ==
    [s EXCEPT !.notification_type = req[1],
              !.notification_state = req[2],
              !.pending_notification = TRUE]

\* The lambda the event handler posts: store the request, raise the flag,
\* call check_loop_status.
submit(s, req) ==
    check_loop_status([s EXCEPT !.notification_type = req[1],
                                !.notification_state = req[2],
                                !.pending_notification = TRUE])


\* ------------------------------------------------------------ host thread
\* thd.is_alive(): true from start() until runtk returns.
is_alive == thd \in {"started", "built", "mainloop", "closed"}

\* What a call of frontend_event_handler did: the event, the sound workers it
\* spawned (their arguments), the requests it posted to the Tk loop, whether
\* it ran the warm-up beep, and whether an exception left the handler.
Outcome(data, sounds, requests, warmup, raised) ==
    [event |-> data, sounds |-> sounds, requests |-> requests,
     warmup |-> warmup, raised |-> raised]

NoCall == Outcome(None, <<>>, <<>>, FALSE, FALSE)

\* play_sound without the test of Config.sounds_enabled.
play_sound_ignores_flag(spec) ==
    IF ~SOUNDS_AVAILABLE THEN <<>> ELSE <<spec>>

\* play_sound without the test of SOUNDS_AVAILABLE.
play_sound_ignores_import(spec) ==
    IF ~Config.sounds_enabled THEN <<>> ELSE <<spec>>

\* play_sound: the workers started, none when the call returns early.
play_sound(spec) ==
    IF ~SOUNDS_AVAILABLE \/ ~Config.sounds_enabled THEN <<>> ELSE <<spec>>

\* The FINISHED_LOADING branch with the thread never started: start it, then
\* the warm-up.
FinishedLoadingStart ==
    /\ thd = "initial"
    /\ thd' = "started"
    /\ warmed' = (warmed \/ SOUNDS_AVAILABLE)
    /\ last' = Outcome("FINISHED_LOADING", <<>>, <<>>, SOUNDS_AVAILABLE, FALSE)
    /\ UNCHANGED <<SOUNDS_AVAILABLE, Config, app_instance, app, queue>>

\* FINISHED_LOADING that starts the thread again although it is alive.
FinishedLoadingAlive_restart ==
    /\ is_alive
    /\ thd' = "started"
    /\ warmed' = (warmed \/ SOUNDS_AVAILABLE)
    /\ last' = Outcome("FINISHED_LOADING", <<>>, <<>>, SOUNDS_AVAILABLE, FALSE)
    /\ UNCHANGED <<SOUNDS_AVAILABLE, Config, app_instance, app, queue>>

\* The FINISHED_LOADING branch with the thread alive: only the warm-up.
FinishedLoadingAlive ==
    /\ is_alive
    /\ warmed' = (warmed \/ SOUNDS_AVAILABLE)
    /\ last' = Outcome("FINISHED_LOADING", <<>>, <<>>, SOUNDS_AVAILABLE, FALSE)
    /\ UNCHANGED <<SOUNDS_AVAILABLE, Config, thd, app_instance, app, queue>>

\* The FINISHED_LOADING branch after runtk has returned: is_alive() is false,
\* and start() of a thread that already ran raises RuntimeError, which leaves
\* the handler before the warm-up.
FinishedLoadingDead ==
    /\ thd = "stopped"
    /\ last' = Outcome("FINISHED_LOADING", <<>>, <<>>, FALSE, TRUE)
    /\ UNCHANGED <<SOUNDS_AVAILABLE, Config, thd, app_instance, app, queue,
                   warmed>>

\* The handler with play_sound ahead of the popup check.
EventNoPopup_sound(data) ==
    /\ data # "FINISHED_LOADING"
    /\ app_instance = None
    /\ last' = Outcome(data,
                       IF data \in Recognized
                       THEN play_sound(SoundOf(data)) ELSE <<>>,
                       <<>>, FALSE, FALSE)
    /\ UNCHANGED <<SOUNDS_AVAILABLE, Config, thd, app_instance, app, queue,
                   warmed>>

\* Any other event while app_instance is None: the early return.
EventNoPopup(data) ==
    /\ data # "FINISHED_LOADING"
    /\ app_instance = None
    /\ last' = Outcome(data, <<>>, <<>>, FALSE, FALSE)
    /\ UNCHANGED <<SOUNDS_AVAILABLE, Config, thd, app_instance, app, queue,
                   warmed>>

\* Any other event after the window was destroyed and before runtk clears
\* app_instance: winfo_exists() on the destroyed application raises TclError.
EventClosedPopup(data) ==
    /\ data # "FINISHED_LOADING"
    /\ app_instance # None
    /\ thd = "closed"
    /\ last' = Outcome(data, <<>>, <<>>, FALSE, TRUE)
    /\ UNCHANGED <<SOUNDS_AVAILABLE, Config, thd, app_instance, app, queue,
                   warmed>>

\* A recognized event with the popup running: play_sound, then the lambda is
\* posted with after(0, ...).
EventNotify(data) ==
    /\ data \in Recognized
    /\ app_instance # None
    /\ thd = "mainloop"
    /\ app.polls + Len(queue) < MaxPolls
    /\ queue' = Append(queue, RequestOf(data))
    /\ last' = Outcome(data, play_sound(SoundOf(data)), <<RequestOf(data)>>,
                       FALSE, FALSE)
    /\ UNCHANGED <<SOUNDS_AVAILABLE, Config, thd, app_instance, app, warmed>>

\* An event with no branch of its own, popup running: nothing happens.
EventIgnored(data) ==
    /\ data \notin Recognized
    /\ data # "FINISHED_LOADING"
    /\ app_instance # None
    /\ thd = "mainloop"
    /\ last' = Outcome(data, <<>>, <<>>, FALSE, FALSE)
    /\ UNCHANGED <<SOUNDS_AVAILABLE, Config, thd, app_instance, app, queue,
                   warmed>>

\* frontend_event_handler(data).
frontend_event_handler(data) ==
    \/ data = "FINISHED_LOADING" /\ FinishedLoadingStart
    \/ data = "FINISHED_LOADING" /\ FinishedLoadingAlive
    \/ data = "FINISHED_LOADING" /\ FinishedLoadingDead
    \/ EventNoPopup(data)
    \/ EventClosedPopup(data)
    \/ EventNotify(data)
    \/ EventIgnored(data)

\* script_update(settings): both flags are stored; with the popup running an
\* update_position callback is posted.  (With the window destroyed and
\* app_instance not yet cleared the flags are stored and nothing is posted.)
script_update(sounds, center) ==
    /\ Config' = [sounds_enabled |-> sounds, position_center |-> center]
    /\ IF app_instance # None /\ thd = "mainloop"
       THEN /\ app.positions < MaxPosted
            /\ app' = [app EXCEPT !.positions = @ + 1]
       ELSE UNCHANGED app
    /\ UNCHANGED <<SOUNDS_AVAILABLE, thd, app_instance, queue, warmed, last>>


\* -------------------------------------------------------------- Tk thread
\* runtk, Application(): the object is constructed and reads the config;
\* app_instance is not assigned yet.
RunTkConstruct ==
    /\ thd = "started"
    /\ thd' = "built"
    /\ app' = AppInit(Config)
    /\ UNCHANGED <<SOUNDS_AVAILABLE, Config, app_instance, queue, warmed, last>>

\* runtk: app_instance is assigned, check_loop_status() starts the polling
\* and mainloop() is entered.
RunTkMainloop ==
    /\ thd = "built"
    /\ thd' = "mainloop"
    /\ app_instance' = "app"
    /\ app' = check_loop_status(app)
    /\ UNCHANGED <<SOUNDS_AVAILABLE, Config, queue, warmed, last>>

\* The loop runs the oldest posted lambda.
RunLambda ==
    /\ thd = "mainloop"
    /\ queue # <<>>
    /\ app' = submit(app, Head(queue))
    /\ queue' = Tail(queue)
    /\ UNCHANGED <<SOUNDS_AVAILABLE, Config, thd, app_instance, warmed, last>>

\* The loop runs a pending check_loop_status callback.
PollTick ==
    /\ thd = "mainloop"
    /\ app.polls > 0
    /\ app' = check_loop_status([app EXCEPT !.polls = @ - 1])
    /\ UNCHANGED <<SOUNDS_AVAILABLE, Config, thd, app_instance, queue, warmed,
                   last>>

\* The loop runs a pending fade_in callback.
FadeInTimer ==
    /\ thd = "mainloop"
    /\ \E t \in app.timers :
          /\ t.cb = "fade_in"
          /\ app' = fade_in([app EXCEPT !.timers = @ \ {t}])
    /\ UNCHANGED <<SOUNDS_AVAILABLE, Config, thd, app_instance, queue, warmed,
                   last>>

\* The loop runs a pending fade_out callback (the hold timer or a fade step).
FadeOutTimer ==
    /\ thd = "mainloop"
    /\ \E t \in app.timers :
          /\ t.cb = "fade_out"
          /\ app' = fade_out([app EXCEPT !.timers = @ \ {t}])
    /\ UNCHANGED <<SOUNDS_AVAILABLE, Config, thd, app_instance, queue, warmed,
                   last>>

\* The loop runs a posted update_position callback.
RunUpdatePosition ==
    /\ thd = "mainloop"
    /\ app.positions > 0
    /\ app' = update_position([app EXCEPT !.positions = @ - 1], Config)
    /\ UNCHANGED <<SOUNDS_AVAILABLE, Config, thd, app_instance, queue, warmed,
                   last>>

\* The window is destroyed: the widget and every pending callback go with it,
\* and mainloop() returns.
WindowClose ==
    /\ thd = "mainloop"
    /\ thd' = "closed"
    /\ app' = NoApp
    /\ queue' = <<>>
    /\ UNCHANGED <<SOUNDS_AVAILABLE, Config, app_instance, warmed, last>>

\* runtk: app_instance = None, and the thread ends.
RunTkExit ==
    /\ thd = "closed"
    /\ thd' = "stopped"
    /\ app_instance' = None
    /\ UNCHANGED <<SOUNDS_AVAILABLE, Config, app, queue, warmed, last>>

\* ---------------------------------------------------------- specification
Init ==
    /\ SOUNDS_AVAILABLE \in BOOLEAN
    /\ Config = [sounds_enabled |-> TRUE, position_center |-> TRUE]
    /\ thd = "initial"
    /\ app_instance = None
    /\ app = NoApp
    /\ queue = <<>>
    /\ warmed = FALSE
    /\ last = NoCall

HostEvent == \E data \in Events : frontend_event_handler(data)

SettingsUpdate == \E sounds, center \in BOOLEAN : script_update(sounds, center)

Next ==
    \/ HostEvent
    \/ SettingsUpdate
    \/ RunTkConstruct
    \/ RunTkMainloop
    \/ RunLambda
    \/ PollTick
    \/ FadeInTimer
    \/ FadeOutTimer
    \/ RunUpdatePosition
    \/ WindowClose
    \/ RunTkExit

Spec == Init /\ [][Next]_vars


\* The specification for the claims about the animation coming to rest.  The
\* Tk loop runs every callback that is due: a posted lambda and a pending
\* fade or hold timer are run eventually unless the window is destroyed
\* first.  Nothing obliges the host to send events.  script_update and the
\* update_position callback it posts are left out: they write only Config
\* and the window geometry, which no fade callback reads.
LiveNext ==
    \/ HostEvent
    \/ RunTkConstruct
    \/ RunTkMainloop
    \/ RunLambda
    \/ PollTick
    \/ FadeInTimer
    \/ FadeOutTimer
    \/ WindowClose
    \/ RunTkExit

LiveSpec ==
    /\ Init
    /\ [][LiveNext]_vars
    /\ WF_vars(RunLambda)
    /\ WF_vars(FadeInTimer)
    /\ WF_vars(FadeOutTimer)

\* --------------------------------------------- the driver on any pair
\* check_loop_status reads notification_type and notification_state as
\* plain attributes: the pairs it is applied to here are the five the
\* handler posts and three it does not (known type with an unknown state,
\* known state under the wrong type, unknown type).
KnownPairs ==
    {<<"recording", "started">>, <<"recording", "paused">>,
     <<"recording", "unpaused">>, <<"recording", "saved">>,
     <<"replay", "saved">>}

UnknownPairs ==
    {<<"recording", "stopped">>, <<"replay", "started">>,
     <<"stream", "saved">>}

PairInputs == KnownPairs \cup UnknownPairs

\* The popup right after start-up: FINISHED_LOADING handled, Application
\* constructed, the first check_loop_status run, nothing submitted yet.
PairInit ==
    /\ SOUNDS_AVAILABLE = TRUE
    /\ Config = [sounds_enabled |-> TRUE, position_center |-> TRUE]
    /\ thd = "mainloop"
    /\ app_instance = "app"
    /\ app = check_loop_status(AppInit(Config))
    /\ queue = <<>>
    /\ warmed = TRUE
    /\ last = Outcome("FINISHED_LOADING", <<>>, <<>>, TRUE, FALSE)

\* The posted lambda of the handler's branches, for any pair.
PostPair ==
    /\ thd = "mainloop"
    /\ app.polls + Len(queue) < MaxPolls
    /\ \E pair \in PairInputs : queue' = Append(queue, pair)
    /\ UNCHANGED <<SOUNDS_AVAILABLE, Config, thd, app_instance, app, warmed,
                   last>>

PairNext ==
    \/ PostPair
    \/ RunLambda
    \/ PollTick
    \/ FadeInTimer
    \/ FadeOutTimer

PairSpec == PairInit /\ [][PairNext]_vars

\* ------------------------------------------------------------- vocabulary
Running == thd = "mainloop"

StoredRequest == <<app.notification_type, app.notification_state>>

Idle == ~app.is_animating /\ app.notification_type = Absent

HoldTimers == {t \in app.timers : t.ms = HOLD_MS}

\* ----------------------------------------------------------------- claims

\* C1: at most one fade-in, hold or fade-out callback is pending on the Tk
\* loop at any time, whatever requests, poll ticks and timers came before.
C1_OneFadeCallback == Cardinality(app.timers) <= 1

\* Two requests were processed and no hold was ever scheduled, so the second
\* one interrupted the first in its fade-in; one callback is pending.
C1_Witness ==
    /\ Running
    /\ app.polls >= 3
    /\ app.fadeout_timer = NoTimer
    /\ Cardinality(app.timers) = 1

\* C2: a request processed while an animation is in progress aborts it: the
\* callbacks of the old animation are gone, opacity is one step above 0 (it
\* was 0 before the first increment), label and glyph are those of the new
\* request; and the fade-in steps that follow leave label and glyph alone,
\* so they are still those of the new request at 0.9.
C2_InterruptShowsNewRequest ==
    /\ [][(RunLambda /\ app.is_animating) =>
            /\ app'.alpha = ALPHA_STEP
            /\ \A t \in app'.timers : t \notin app.timers /\ t.cb = "fade_in"
            /\ app'.label = Labels(Head(queue)[1], Head(queue)[2])
            /\ app'.indicator = DrawIndicator(Head(queue)[1], Head(queue)[2])
            /\ StoredRequest' = Head(queue)]_vars
    /\ [][FadeInTimer =>
            /\ app'.label = app.label
            /\ app'.indicator = app.indicator
            /\ StoredRequest' = StoredRequest
            /\ app'.label = Labels(app.notification_type,
                                   app.notification_state)]_vars

\* The second of two requests interrupted the first in its fade-in (no hold
\* was ever scheduled) and its own fade-in has reached 0.9.
C2_Witness ==
    /\ Running
    /\ app.polls >= 3
    /\ app.fadeout_timer = NoTimer
    /\ app.alpha = ALPHA_FULL
    /\ app.label = Labels(app.notification_type, app.notification_state)

\* C3: whenever the popup is idle (not animating, no stored request), also
\* after a fade-out that ran to completion, the opacity is exactly 0.
C3_IdleOpacityZero == (Running /\ Idle) => app.alpha = 0

\* C4: after a finite burst of requests the popup returns to idle and stays
\* there: from some point on it is never animating and holds no request.
C4_EventuallyIdle == <>[](Running => (Idle /\ queue = <<>>))

\* Two requests were processed and the popup is idle again.
C4_Witness == Running /\ app.polls >= 3 /\ Idle /\ queue = <<>>

\* C5: while an animation is in progress the label and glyph are those of the
\* stored request, the last one the Tk thread has processed; and when the
\* latest handler call submitted a request and nothing is left in the queue,
\* that request is the one shown.
C5_LabelIsLatestProcessed ==
    (Running /\ app.is_animating) =>
        /\ app.label = Labels(app.notification_type, app.notification_state)
        /\ app.indicator = DrawIndicator(app.notification_type,
                                         app.notification_state)
        /\ (last.requests # <<>> /\ queue = <<>>) =>
              StoredRequest = last.requests[1]

\* After a burst of two requests the animation of the second one is holding
\* at 0.9 and shows it.
C5_Witness ==
    /\ Running
    /\ app.is_animating
    /\ app.polls >= 3
    /\ queue = <<>>
    /\ last.requests # <<>>
    /\ HoldTimers # {}

\* C6: a request processed while the popup is idle starts the fade-in in that
\* very callback, before any later poll tick: the popup is animating, shows
\* the request, has made the first step and has the next one scheduled.
C6_IdleSubmitStartsFadeIn ==
    [][(RunLambda /\ Idle) =>
          /\ app'.is_animating
          /\ app'.label = Labels(Head(queue)[1], Head(queue)[2])
          /\ app'.alpha = ALPHA_STEP
          /\ \E t \in app'.timers : t.cb = "fade_in" /\ t.ms = FADE_MS]_vars

\* The first request was processed from idle and its fade-in is under way.
C6_Witness ==
    /\ Running
    /\ app.polls = 2
    /\ app.is_animating
    /\ app.alpha = ALPHA_STEP
    /\ \E t \in app.timers : t.cb = "fade_in"

C8_SoundWithoutPopup ==
    [][\A data \in Recognized :
          (frontend_event_handler(data) /\ SOUNDS_AVAILABLE
             /\ Config.sounds_enabled)
          => last'.sounds = <<SoundOf(data)>>]_vars

\* C8 amended: with app_instance None a recognized event does nothing at all
\* (no sound worker, no submission, no error); with the popup running it
\* posts its request and, sounds enabled and audio available, spawns its
\* sound worker.
C8_SoundOnlyWithPopup ==
    [][\A data \in Recognized :
          frontend_event_handler(data) =>
            /\ app_instance = None =>
                 /\ last'.sounds = <<>>
                 /\ last'.requests = <<>>
                 /\ ~last'.raised
                 /\ queue' = queue
            /\ Running =>
                 /\ last'.requests = <<RequestOf(data)>>
                 /\ queue' = Append(queue, RequestOf(data))
                 /\ ~last'.raised
                 /\ (SOUNDS_AVAILABLE /\ Config.sounds_enabled)
                      => last'.sounds = <<SoundOf(data)>>
                 /\ ~(SOUNDS_AVAILABLE /\ Config.sounds_enabled)
                      => last'.sounds = <<>>]_vars

\* A recognized event was handled before the popup existed, sounds enabled
\* and audio available, and spawned no sound worker.
C8_Witness ==
    /\ last.event \in Recognized
    /\ app_instance = None
    /\ thd = "initial"
    /\ SOUNDS_AVAILABLE
    /\ Config.sounds_enabled
    /\ last.sounds = <<>>
    /\ last.requests = <<>>

\* C9: no call of frontend_event_handler lets an exception out to the host,
\* whatever the event and wherever the Tk thread is in its life.
C9_NoErrorToHost == ~last.raised

\* C10: FINISHED_LOADING with the Tk thread alive starts no thread, builds no
\* Application and leaves the popup, its timers and the queue as they were;
\* the thread is only ever started from the never-started state.
C10_FinishedLoadingIdempotent ==
    /\ [][(frontend_event_handler("FINISHED_LOADING") /\ is_alive) =>
            /\ thd' = thd
            /\ app_instance' = app_instance
            /\ app' = app
            /\ queue' = queue
            /\ ~last'.raised]_vars
    /\ [][(thd' = "started" /\ thd # "started") => thd = "initial"]_vars

\* FINISHED_LOADING was the latest event, handled while an animation was in
\* progress.
C10_Witness ==
    /\ Running
    /\ last.event = "FINISHED_LOADING"
    /\ app.is_animating
    /\ app.timers # {}


\* C11: with the popup running and audio available, a recognized event
\* handled while Config.sounds_enabled is false spawns no sound worker, and
\* one handled while it is true (again) spawns exactly one, its own.
C11_SoundFollowsFlag ==
    [][\A data \in Recognized :
          (frontend_event_handler(data) /\ Running /\ SOUNDS_AVAILABLE) =>
            /\ ~Config.sounds_enabled => Len(last'.sounds) = 0
            /\ Config.sounds_enabled =>
                 /\ Len(last'.sounds) = 1
                 /\ last'.sounds[1] = SoundOf(data)]_vars

\* Audio is available and the flag is true again, after a recognized event
\* that posted its request and, the flag being false then, spawned no worker.
C11_Witness ==
    /\ Running
    /\ SOUNDS_AVAILABLE
    /\ Config.sounds_enabled
    /\ last.event \in Recognized
    /\ last.requests # <<>>
    /\ last.sounds = <<>>

\* C12: with winsound missing no sound is ever made: no handler call spawns
\* a sound worker or runs the warm-up beep, and no beep has ever been made.
C12_NoSoundWithoutAudio ==
    ~SOUNDS_AVAILABLE => (last.sounds = <<>> /\ ~last.warmup /\ ~warmed)

\* Without audio and with sounds enabled, a recognized event posted its
\* request and spawned no worker.
C12_Witness ==
    /\ ~SOUNDS_AVAILABLE
    /\ Config.sounds_enabled
    /\ Running
    /\ last.event \in Recognized
    /\ last.requests # <<>>
    /\ last.sounds = <<>>

\* The table of spec section 6, written out: the sound and the notification
\* of each host event.
C13_TableSound(data) ==
    CASE data = "RECORDING_STARTING" ->
           <<[alias |-> "DeviceConnect", freq |-> 800, ms |-> 200, count |-> 1]>>
      [] data = "RECORDING_STOPPED" ->
           <<[alias |-> "DeviceDisconnect", freq |-> 400, ms |-> 300, count |-> 1]>>
      [] data = "RECORDING_PAUSED" ->
           <<[alias |-> "SystemHand", freq |-> 600, ms |-> 150, count |-> 2]>>
      [] data = "RECORDING_UNPAUSED" ->
           <<[alias |-> "SystemAsterisk", freq |-> 600, ms |-> 100, count |-> 2]>>
      [] data = "REPLAY_BUFFER_SAVED" ->
           <<[alias |-> "SystemNotification", freq |-> 1000, ms |-> 100, count |-> 3]>>
      [] OTHER -> <<>>

C13_TableRequest(data) ==
    CASE data = "RECORDING_STARTING"  -> << <<"recording", "started">> >>
      [] data = "RECORDING_STOPPED"   -> << <<"recording", "saved">> >>
      [] data = "RECORDING_PAUSED"    -> << <<"recording", "paused">> >>
      [] data = "RECORDING_UNPAUSED"  -> << <<"recording", "unpaused">> >>
      [] data = "REPLAY_BUFFER_SAVED" -> << <<"replay", "saved">> >>
      [] OTHER -> <<>>

\* C13: with the popup running, every host event yields the sound (sounds
\* enabled, audio available) and the notification request of the table, one
\* of each for a recognized event; FINISHED_LOADING and unrecognized events
\* submit nothing.
C13_EventTable ==
    [][\A data \in Events :
          (frontend_event_handler(data) /\ Running) =>
            /\ last'.requests = C13_TableRequest(data)
            /\ queue' = queue \o C13_TableRequest(data)
            /\ (SOUNDS_AVAILABLE /\ Config.sounds_enabled)
                 => last'.sounds = C13_TableSound(data)]_vars

\* RecordingPaused was handled with the popup running: two-beep SystemHand
\* sound and the (recording, paused) request.
C13_Witness ==
    /\ Running
    /\ last.event = "RECORDING_PAUSED"
    /\ Len(last.sounds) = 1
    /\ last.sounds[1].alias = "SystemHand"
    /\ last.sounds[1].count = 2
    /\ last.requests = << <<"recording", "paused">> >>

\* C14: the warm-up beep is made at most once: a handler call makes it only
\* if none was made before.
C14_WarmupOnce ==
    [][(frontend_event_handler("FINISHED_LOADING") /\ last'.warmup)
         => ~warmed]_vars

\* C15: script_update and the update_position callback it posts change only
\* the configuration, the count of posted callbacks and the geometry: the
\* animation flags, the opacity, the stored request, the label and glyph,
\* the timers and the request queue stay as they were.
C15_PositionOnlyGeometry ==
    [][(SettingsUpdate \/ RunUpdatePosition) =>
          /\ [app' EXCEPT !.centered = app.centered,
                          !.positions = app.positions] = app
          /\ queue' = queue
          /\ thd' = thd]_vars

\* In the middle of a fade-in an update_position callback is pending and
\* the geometry is not yet the configured one.
C15_Witness ==
    /\ Running
    /\ app.is_animating
    /\ app.alpha = 5
    /\ app.timers # {}
    /\ app.positions = 1
    /\ app.centered = "center"
    /\ ~Config.position_center


\* The labels of the five known pairs, written out from spec section 5.
C16_KnownLabel(pair) ==
    CASE pair = <<"recording", "started">>  -> "Recording Started"
      [] pair = <<"recording", "paused">>   -> "Recording Paused"
      [] pair = <<"recording", "unpaused">> -> "Recording Resumed"
      [] pair = <<"recording", "saved">>    -> "Recording Saved"
      [] pair = <<"replay", "saved">>       -> "Replay Saved"

\* C16: whatever pair is submitted, the driver starts the fade-in (animating,
\* first opacity step, a fade_in callback pending); the label is the generic
\* "Notification" for a pair outside the five known ones and the pair's own
\* label for a known one.
C16_UnknownPairFallback ==
    [][RunLambda =>
         LET pair == Head(queue) IN
         /\ app'.is_animating
         /\ app'.alpha = ALPHA_STEP
         /\ \E t \in app'.timers : t.cb = "fade_in" /\ t.id = app'.fade_timer
         /\ StoredRequest' = pair
         /\ pair \in KnownPairs => app'.label = C16_KnownLabel(pair)
         /\ pair \notin KnownPairs => app'.label = "Notification"]_vars

\* An unknown pair is on display with the generic label and its animation
\* has reached the hold.
C16_Witness ==
    /\ StoredRequest \in UnknownPairs
    /\ app.label = "Notification"
    /\ app.is_animating
    /\ app.alpha = ALPHA_FULL
    /\ HoldTimers # {}


\* C17: the phases run fade-in, hold, fade-out, idle, each step fired by the
\* only pending callback, which is the one the running animation stored: a
\* fade-in step by _fade_timer with no hold pending; the first fade-out step
\* by the hold timer in _fadeout_timer, at full opacity; the later fade-out
\* steps by _fade_timer; and the popup turns idle only in the last fade-out
\* step.  No callback of an interrupted animation fires.
C17_PhaseOrder ==
    /\ [][FadeInTimer =>
            /\ app.is_animating
            /\ \E t \in app.timers :
                 /\ app.timers = {t}
                 /\ t.cb = "fade_in"
                 /\ t.id = app.fade_timer]_vars
    /\ [][FadeOutTimer =>
            /\ app.is_animating
            /\ \E t \in app.timers :
                 /\ app.timers = {t}
                 /\ t.cb = "fade_out"
                 /\ t.ms = HOLD_MS =>
                      (t.id = app.fadeout_timer /\ app.alpha = ALPHA_FULL)
                 /\ t.ms = FADE_MS =>
                      (t.id = app.fade_timer /\ app.alpha < ALPHA_FULL)]_vars
    /\ [][(Running /\ Running' /\ app.is_animating /\ ~app'.is_animating) =>
            (FadeOutTimer /\ app.alpha = ALPHA_LOW /\ app'.timers = {})]_vars

\* The first animation, never interrupted (one poll per processed request),
\* has taken its first fade-out step off the hold timer.
C17_Witness ==
    /\ Running
    /\ app.polls = 2
    /\ queue = <<>>
    /\ app.is_animating
    /\ app.alpha = ALPHA_FULL - ALPHA_STEP
    /\ app.fadeout_timer # NoTimer
    /\ \E t \in app.timers :
         t.cb = "fade_out" /\ t.ms = FADE_MS /\ t.id = app.fade_timer

\* C18: the opacity goes down only in a fade-out step or when a submitted
\* request snaps it to 0; fade-in steps, polls and geometry updates never
\* lower it, so it is non-decreasing from the start of a fade-in to the
\* start of its fade-out.
C18_OpacityMonotone ==
    [][(Running /\ Running' /\ app'.alpha < app.alpha) =>
         \/ FadeOutTimer
         \/ RunLambda /\ app.alpha > ALPHA_STEP /\ app'.alpha = ALPHA_STEP]_vars

\* A fade-in has reached the hold at full opacity while polls and a later
\* request's handling were interleaved with it.
C18_Witness ==
    /\ Running
    /\ app.polls >= 3
    /\ app.is_animating
    /\ app.alpha = ALPHA_FULL
    /\ HoldTimers # {}
    /\ app.timers = HoldTimers


\* C19: there is a single polling chain: at most one check_loop_status
\* callback is pending at any time, however many requests were submitted.
C19_SinglePollChain ==
    Running => app.polls <= 1

\* C20: whenever the popup exists and no update_position callback is
\* pending, the geometry is the one Config.position_center asks for.
C20_PositionFollowsConfig ==
    (app_instance # None /\ Running /\ app.positions = 0) =>
        app.centered = (IF Config.position_center THEN "center"
                        ELSE "top_right")

====
